---- MODULE Spec2Model ----
(***************************************************************************)
(* Interceptra: the patch-and-repackage pipeline (Interceptra.cut) and the *)
(* command-line entry point (main) that drives it.                         *)
(*                                                                         *)
(* The file system is reduced to the three working paths the object        *)
(* derives from the bundle path: the extraction directory, the             *)
(* intermediate archive (patched_apk) and the final aligned archive        *)
(* (zipaligned_apk).  Every file carries a flag `fresh` that says the      *)
(* current call of cut() wrote it; entering cut() clears the flags, so a   *)
(* file that is present and not fresh was left by an earlier run.          *)
(* External tools are opaque: each invocation draws its outcome (cannot    *)
(* be launched, non-zero exit, zero exit) and, on a zero exit, whether the *)
(* output it is expected to write is actually on disk afterwards.          *)
(***************************************************************************)
EXTENDS Integers, Sequences, FiniteSets, TLC

VARIABLES
    pc,             \* position of the running process (main / cut)
    caller,         \* "cli": started through main(); "lib": Interceptra used directly
    argv,           \* the parsed command line of the current process
    apkIsFile,      \* os.path.isfile(self.apk)
    constructed,    \* an Interceptra object exists
    ctorSawFile,    \* value of apkIsFile at the time __init__ ran
    keep_files,     \* self.keep_files
    compile_sdk,    \* self.compile_sdk: <<>> is None, <<v>> is the integer v
    extraction_dir, \* the directory <dir>/<basename>
    patched_apk,    \* the file <dir>/<basename>_patched.apk
    zipaligned_apk, \* the file <dir>/<basename>_patched_zipaligned.apk
    log,            \* what the current run of cut() has executed, in order
    result,         \* return value of cut(): "none", "True", "False"
    cleanupWarn,    \* removals that failed in _cleanup_files
    precleared,     \* this run's _decompile_apk removed an existing extraction directory
    exitStatus,     \* <<>> while the process runs, <<n>> once it exited with n
    rpc,            \* position of one _run_command call ("off": none under study)
    rcheck,         \* its `check` argument
    child,          \* the child process: state, lines still to write, exit code
    pipes,          \* lines sitting in the OS pipes of the child's stdout / stderr
    rbuf,           \* lines already read from a pipe into the reader's own buffer
    routcome,       \* how the _run_command call ended
    profile,        \* two-run study: what each tool does every time it is invoked
    history,        \* two-run study: one record per completed cut()
    bundle,         \* path study: base name of the bundle, a sequence of characters
    paths,          \* path study: the working paths __init__ derived from it
    ppc,            \* path study: position ("off": no path study)
    touched,        \* path study: the removals and writes issued, with their targets
    rp              \* two objects on one bundle: per object its position and fields

runnerVars == <<rpc, rcheck, child, pipes, rbuf, routcome>>
detVars == <<profile, history>>
pathVars == <<bundle, paths, ppc, touched>>
studyVars == <<pathVars, rp>>
auxVars == <<runnerVars, detVars, studyVars>>

vars == <<pc, caller, argv, apkIsFile, constructed, ctorSawFile, keep_files,
          compile_sdk, extraction_dir, patched_apk, zipaligned_apk, log,
          result, cleanupWarn, precleared, exitStatus, runnerVars, detVars,
          studyVars>>

----------------------------------------------------------------------------
(* Program constants *)

\* cut(): `if self.compile_sdk >= 30`
SdkThreshold == 30
\* _check_compile_sdk_version(): `self.compile_sdk = 30`
DefaultSdk == 30
\* argparse: parser.error() ends the process with status 2
ArgparseErrorStatus == 2

----------------------------------------------------------------------------
(* Manifest contents as the unpack tool may leave them *)

Digits == <<"0", "1", "2", "3", "4", "5", "6", "7", "8", "9">>

DigitChars == {Digits[i] : i \in 1..10}

DigitVal(c) == (CHOOSE i \in 1..10 : Digits[i] = c) - 1

\* values of android:compileSdkVersion tried, as character sequences
SdkTexts == { <<"2", "9">>, <<"3", "0">>, <<"3", "1">>, <<"3", "a">>, <<"-", "1">> }

\* the application element's android:networkSecurityConfig attribute:
\* "none" (absent), "other" (the bundle's own value), "ours" (@xml/network_security_config)
NoManifest == [kind |-> "missing", hasSdk |-> FALSE, sdk |-> <<>>, nscAttr |-> "none"]

OkManifest(hasSdk, sdk, attr) ==
    [kind |-> "ok", hasSdk |-> hasSdk, sdk |-> sdk, nscAttr |-> attr]

\* kind: "missing" (no AndroidManifest.xml), "unparsable" (not well-formed XML),
\* "noapp" (no top-level <application>), "ok"
Manifests ==
    { NoManifest,
      [NoManifest EXCEPT !.kind = "unparsable"],
      [NoManifest EXCEPT !.kind = "noapp"] }
    \cup { OkManifest(FALSE, <<>>, a) : a \in {"none", "other"} }
    \cup { OkManifest(TRUE, s, a) : s \in SdkTexts, a \in {"none", "other"} }

\* res/xml/network_security_config.xml in a freshly unpacked tree:
\* "none" (absent) or "other" (the bundle ships its own); "literal" is the
\* fixed document _add_network_file writes
UnpackedNsc == {"none", "other"}

NoDir == [exists |-> FALSE, fresh |-> FALSE, manifest |-> NoManifest, nsc |-> "none"]

\* signed: carries a signature; edited: built from a tree that held both the
\* injected resource and the manifest attribute
NoFile == [exists |-> FALSE, fresh |-> FALSE, signed |-> FALSE, edited |-> FALSE]

----------------------------------------------------------------------------
(* Pure helpers *)

RECURSIVE DecimalValue(_)
DecimalValue(ds) ==
    IF ds = <<>> THEN 0
    ELSE 10 * DecimalValue(SubSeq(ds, 1, Len(ds) - 1)) + DigitVal(ds[Len(ds)])

\* mutant: a lenient parser that reads the leading digits and stops at the
\* first other character
MutPyIntPrefix(text) ==
    LET n == CHOOSE k \in 0..Len(text) :
                 /\ \A i \in 1..k : text[i] \in DigitChars
                 /\ (k < Len(text) => text[k + 1] \notin DigitChars)
    IN  IF n = 0 THEN <<>> ELSE << DecimalValue(SubSeq(text, 1, n)) >>

\* int(text) of _check_compile_sdk_version: an optional sign followed by one or
\* more decimal digits gives <<value>>; anything else raises ValueError, <<>>.
\* (Surrounding blanks and digit-group underscores, which int() also accepts,
\* do not occur in SdkTexts.)
PyInt(text) ==
    LET signed == Len(text) > 0 /\ text[1] \in {"+", "-"}
        body   == IF signed THEN Tail(text) ELSE text
    IN  IF Len(body) > 0 /\ \A i \in 1..Len(body) : body[i] \in DigitChars
        THEN IF signed /\ text[1] = "-"
             THEN << 0 - DecimalValue(body) >>
             ELSE << DecimalValue(body) >>
        ELSE <<>>

\* _check_compile_sdk_version: the value assigned to self.compile_sdk for the
\* manifest m found in the extraction directory
CheckCompileSdkVersion(m) ==
    IF m.kind \in {"missing", "unparsable"} THEN DefaultSdk       \* parse raises, except-branch
    ELSE IF ~m.hasSdk THEN DefaultSdk                             \* attribute not in root.attrib
    ELSE IF PyInt(m.sdk) = <<>> THEN DefaultSdk                   \* int() raises, except-branch
    ELSE PyInt(m.sdk)[1]

\* cut(): `if self.compile_sdk >= 30` chooses align-then-apksigner
ModernBranch(v) == v >= SdkThreshold

\* outcomes of one external tool invocation
Outcomes == {"launch_fail", "nonzero", "zero"}

\* mutant: the return code is not checked, only a failed launch raises
MutRunCommandIgnoresExit(out, check) == check /\ out = "launch_fail"

\* _run_command: does the call raise?  Popen failing and (with check) a non-zero
\* return code both leave through `raise`; with check = False the runner returns.
RunCommandRaises(out, check) == check /\ out # "zero"

\* parse_tool_paths: "none" (no --tools), "malformed" (unreadable / bad JSON,
\* degraded to None), "dict" (a usable table), "bad" (JSON that is no usable
\* table, e.g. a number or a table with a non-string path)
ParseToolPaths(t) == IF t \in {"none", "malformed"} THEN "none" ELSE t

\* __init__ / _check_dependencies: does construction raise for these tool paths?
InitRaises(tool_paths) == tool_paths = "bad"

Entry(stage, tool, target, out, produced, ok) ==
    [stage |-> stage, tool |-> tool, target |-> target, out |-> out,
     produced |-> produced, ok |-> ok]

----------------------------------------------------------------------------
(* Initial state: nothing has run yet; the working paths are clean *)

NoArgv == [kind |-> "none", keep |-> FALSE, tools |-> "none"]

NoChild == [state |-> "none", todo |-> <<>>, rc |-> 0]
NoLines == [out |-> 0, err |-> 0]
NoTool == [out |-> "zero", produced |-> TRUE]
NoProfile == [apktool_d |-> NoTool, apktool_b |-> NoTool, jarsigner |-> NoTool,
              zipalign |-> NoTool, apksigner |-> NoTool,
              manifest |-> NoManifest, nsc |-> "none", rmtreeOk |-> TRUE]

NoPaths == [extraction_dir |-> <<>>, patched_apk |-> <<>>, zipaligned_apk |-> <<>>]

\* no path derivation and no second object is being followed
StudyIdle ==
    /\ bundle = <<>>
    /\ paths = NoPaths
    /\ ppc = "off"
    /\ touched = {}
    /\ rp = <<>>

\* no _run_command call and no two-run comparison is being followed
AuxIdle ==
    /\ rpc = "off"
    /\ rcheck = TRUE
    /\ child = NoChild
    /\ pipes = NoLines
    /\ rbuf = NoLines
    /\ routcome = "none"
    /\ profile = NoProfile
    /\ history = <<>>
    /\ StudyIdle

\* no process has started and the working paths are clean
PipelineIdle ==
    /\ pc = "idle"
    /\ caller = "none"
    /\ argv = NoArgv
    /\ apkIsFile \in BOOLEAN
    /\ constructed = FALSE
    /\ ctorSawFile = FALSE
    /\ keep_files = FALSE
    /\ compile_sdk = <<>>
    /\ extraction_dir = NoDir
    /\ patched_apk = NoFile
    /\ zipaligned_apk = NoFile
    /\ log = <<>>
    /\ result = "none"
    /\ cleanupWarn = {}
    /\ precleared = FALSE
    /\ exitStatus = <<>>

Init == PipelineIdle /\ AuxIdle

fsVars == <<extraction_dir, patched_apk, zipaligned_apk>>
objVars == <<constructed, ctorSawFile, keep_files, compile_sdk>>
runVars == <<log, result, cleanupWarn, precleared>>

\* a new process / a new object starts from a clean slate
FreshRun ==
    /\ log' = <<>>
    /\ result' = "none"
    /\ cleanupWarn' = {}
    /\ precleared' = FALSE

\* the stage raised (or cut() took a `return False`): cut() returns False
Fail(entry) ==
    /\ log' = Append(log, entry)
    /\ result' = "False"
    /\ pc' = "returned"

\* the stage completed; cut() goes on at `next`
Pass(entry, next) ==
    /\ log' = Append(log, entry)
    /\ result' = result
    /\ pc' = next

----------------------------------------------------------------------------
(* The command line: main() *)

\* handle_args: argparse exits with status 2 when --apk is missing and with 0
\* after printing the help text
HandleArgs ==
    /\ pc = "idle"
    /\ \E kind \in {"ok", "missing_apk", "help"}, keep \in BOOLEAN,
          tools \in {"none", "malformed", "dict", "bad"} :
          /\ argv' = [kind |-> kind, keep |-> keep, tools |-> tools]
          /\ kind # "ok" => keep = FALSE /\ tools = "none"
          /\ IF kind = "missing_apk"
             THEN pc' = "exited" /\ exitStatus' = << ArgparseErrorStatus >>
             ELSE IF kind = "help"
             THEN pc' = "exited" /\ exitStatus' = << 0 >>
             ELSE pc' = "main_validate" /\ exitStatus' = <<>>
    /\ caller' = "cli"
    /\ constructed' = FALSE /\ ctorSawFile' = FALSE
    /\ keep_files' = FALSE /\ compile_sdk' = <<>>
    /\ FreshRun
    /\ UNCHANGED <<apkIsFile, fsVars, auxVars>>

\* main(): `if not os.path.isfile(apk_path): return 1`
MainValidate ==
    /\ pc = "main_validate"
    /\ IF apkIsFile
       THEN pc' = "main_construct" /\ exitStatus' = exitStatus
       ELSE pc' = "exited" /\ exitStatus' = << 1 >>
    /\ UNCHANGED <<caller, argv, apkIsFile, objVars, fsVars, auxVars, runVars>>

\* main(): Interceptra(...) inside try; an exception gives `return 1`
MainConstruct ==
    /\ pc = "main_construct"
    /\ IF InitRaises(ParseToolPaths(argv.tools))
       THEN /\ pc' = "exited"
            /\ exitStatus' = << 1 >>
            /\ UNCHANGED objVars
       ELSE /\ pc' = "cut"
            /\ exitStatus' = exitStatus
            /\ constructed' = TRUE
            /\ ctorSawFile' = apkIsFile
            /\ keep_files' = argv.keep
            /\ compile_sdk' = <<>>
    /\ UNCHANGED <<caller, argv, apkIsFile, fsVars, auxVars, runVars>>

\* main(): the status for the value cut() returned
StatusOf(success) == IF success = "True" THEN 0 ELSE 1

\* mutant: the failure of cut() is printed but not turned into a status
MutMainExitIgnoresResult ==
    /\ pc = "returned"
    /\ caller = "cli"
    /\ exitStatus' = << 0 >>
    /\ pc' = "exited"
    /\ UNCHANGED <<caller, argv, apkIsFile, objVars, fsVars, auxVars, runVars>>

\* main(): the status returned after cut()
MainExit ==
    /\ pc = "returned"
    /\ caller = "cli"
    /\ exitStatus' = << StatusOf(result) >>
    /\ pc' = "exited"
    /\ UNCHANGED <<caller, argv, apkIsFile, objVars, fsVars, auxVars, runVars>>

\* sys.exit(main()): the process is gone, the next one may start
ProcessEnd ==
    /\ pc = "exited"
    /\ pc' = "idle"
    /\ UNCHANGED <<caller, argv, apkIsFile, objVars, fsVars, auxVars, runVars, exitStatus>>

\* Interceptra(apk, tool_paths=..., keep_files=...) called directly, then cut()
LibConstruct ==
    /\ pc = "idle"
    /\ caller' = "lib"
    /\ argv' = NoArgv
    /\ exitStatus' = <<>>
    /\ FreshRun
    /\ \E keep \in BOOLEAN, tool_paths \in {"none", "dict", "bad"} :
          IF InitRaises(tool_paths)
          THEN /\ pc' = "idle"
               /\ constructed' = FALSE /\ ctorSawFile' = FALSE
               /\ keep_files' = FALSE /\ compile_sdk' = <<>>
          ELSE /\ pc' = "cut"
               /\ constructed' = TRUE
               /\ ctorSawFile' = apkIsFile
               /\ keep_files' = keep
               /\ compile_sdk' = <<>>
    /\ UNCHANGED <<apkIsFile, fsVars, auxVars>>

\* cut() has returned to a direct caller
LibReturn ==
    /\ pc = "returned"
    /\ caller = "lib"
    /\ pc' = "idle"
    /\ UNCHANGED <<caller, argv, apkIsFile, objVars, fsVars, auxVars, runVars, exitStatus>>

\* between processes the user may delete or (re)place the bundle
EnvBundle ==
    /\ pc = "idle"
    /\ apkIsFile' = ~apkIsFile
    /\ UNCHANGED <<pc, caller, argv, objVars, fsVars, auxVars, runVars, exitStatus>>

----------------------------------------------------------------------------
(* The pipeline: Interceptra.cut() *)

hdrVars == <<caller, argv, apkIsFile, constructed, ctorSawFile, keep_files, exitStatus,
             auxVars>>

Stale(f) == [f EXCEPT !.fresh = FALSE]

\* mutant: cut() starts the stages without looking for the bundle
MutCutEntryNoCheck ==
    /\ pc = "cut"
    /\ extraction_dir' = Stale(extraction_dir)
    /\ patched_apk' = Stale(patched_apk)
    /\ zipaligned_apk' = Stale(zipaligned_apk)
    /\ pc' = "Unpack"
    /\ UNCHANGED <<hdrVars, compile_sdk, runVars>>

\* mutant: cut() refuses to run when an earlier run's final archive is there
MutCutEntryRefusesExisting ==
    /\ pc = "cut"
    /\ extraction_dir' = Stale(extraction_dir)
    /\ patched_apk' = Stale(patched_apk)
    /\ zipaligned_apk' = Stale(zipaligned_apk)
    /\ IF apkIsFile /\ ~zipaligned_apk.exists
       THEN pc' = "Unpack" /\ result' = result
       ELSE pc' = "returned" /\ result' = "False"
    /\ UNCHANGED <<hdrVars, compile_sdk, log, cleanupWarn, precleared>>

\* cut(): `if not os.path.isfile(self.apk): return False`, else the stages start
CutEntry ==
    /\ pc = "cut"
    /\ extraction_dir' = Stale(extraction_dir)
    /\ patched_apk' = Stale(patched_apk)
    /\ zipaligned_apk' = Stale(zipaligned_apk)
    /\ IF apkIsFile
       THEN pc' = "Unpack" /\ result' = result
       ELSE pc' = "returned" /\ result' = "False"
    /\ UNCHANGED <<hdrVars, compile_sdk, log, cleanupWarn, precleared>>

\* mutant: the stale extraction directory is not removed before unpacking
MutClearExtractionSkipped ==
    /\ pc = "Unpack"
    /\ pc' = "UnpackRun"
    /\ UNCHANGED <<hdrVars, compile_sdk, fsVars, runVars>>

\* _decompile_apk, first half: shutil.rmtree of an existing extraction
\* directory; rmtree may raise (e.g. permissions), which ends the run
ClearExtraction ==
    /\ pc = "Unpack"
    /\ IF extraction_dir.exists
       THEN \E removed \in BOOLEAN :
               IF removed
               THEN /\ extraction_dir' = NoDir
                    /\ precleared' = TRUE
                    /\ pc' = "UnpackRun"
                    /\ UNCHANGED <<log, result>>
               ELSE /\ extraction_dir' = extraction_dir
                    /\ precleared' = FALSE
                    /\ Fail(Entry("Unpack", "none", "extraction_dir", "none", FALSE, FALSE))
       ELSE /\ pc' = "UnpackRun"
            /\ UNCHANGED <<extraction_dir, precleared, log, result>>
    /\ UNCHANGED <<hdrVars, compile_sdk, patched_apk, zipaligned_apk, cleanupWarn>>

\* what `apktool d` leaves at the extraction path on exit 0
Unpacked(dir, produced, m, n) ==
    IF produced
    THEN [exists |-> TRUE, fresh |-> ~dir.exists, manifest |-> m, nsc |-> n]
    ELSE dir

\* _decompile_apk, second half: run `java -jar apktool -f d <apk> -o <dir>`
RunUnpack ==
    /\ pc = "UnpackRun"
    /\ \E out \in Outcomes, produced \in BOOLEAN, m \in Manifests, n \in UnpackedNsc :
          /\ out # "zero" => ~produced
          /\ ~produced => m = NoManifest /\ n = "none"
          /\ extraction_dir' = Unpacked(extraction_dir, produced, m, n)
          /\ IF RunCommandRaises(out, TRUE)
             THEN Fail(Entry("Unpack", "apktool_d", "extraction_dir", out, FALSE, FALSE))
             ELSE Pass(Entry("Unpack", "apktool_d", "extraction_dir", out, produced, TRUE),
                       "InjectConfig")
    /\ UNCHANGED <<hdrVars, compile_sdk, patched_apk, zipaligned_apk, cleanupWarn, precleared>>

\* _add_network_file: makedirs(<dir>/res/xml, exist_ok) and write the literal
AddNetworkFile ==
    /\ pc = "InjectConfig"
    /\ extraction_dir' =
          IF extraction_dir.exists
          THEN [extraction_dir EXCEPT !.nsc = "literal"]
          ELSE [NoDir EXCEPT !.exists = TRUE, !.fresh = TRUE, !.nsc = "literal"]
    /\ Pass(Entry("InjectConfig", "none", "extraction_dir", "none", TRUE, TRUE),
            "EditManifest")
    /\ UNCHANGED <<hdrVars, compile_sdk, patched_apk, zipaligned_apk, cleanupWarn, precleared>>

\* mutant: the attribute lands in a manifest rebuilt without the root attributes
MutEditedManifestDropsRootAttrs(m) ==
    [m EXCEPT !.nscAttr = "ours", !.hasSdk = FALSE, !.sdk = <<>>]

\* mutant: the attribute is set on the parsed tree but the tree is not written back
MutEditedManifestNotWritten(m) == m

\* _add_network_attribute_to_manifest: the manifest written back, for an "ok" one
EditedManifest(m) == [m EXCEPT !.nscAttr = "ours"]

\* mutant: the result of root.find("application") is not tested
MutManifestEditableNoApp(m) == m.kind \in {"ok", "noapp"}

\* _add_network_attribute_to_manifest: the file exists, parses and has a
\* top-level application element
ManifestEditable(m) == m.kind = "ok"

\* _add_network_attribute_to_manifest
AddNetworkAttributeToManifest ==
    /\ pc = "EditManifest"
    /\ IF ManifestEditable(extraction_dir.manifest)
       THEN /\ extraction_dir' =
                  [extraction_dir EXCEPT !.manifest = EditedManifest(extraction_dir.manifest)]
            /\ Pass(Entry("EditManifest", "none", "manifest", "none", TRUE, TRUE),
                    "DetectVersion")
       ELSE /\ extraction_dir' = extraction_dir   \* not found / ParseError / no application
            /\ Fail(Entry("EditManifest", "none", "manifest", "none", FALSE, FALSE))
    /\ UNCHANGED <<hdrVars, compile_sdk, patched_apk, zipaligned_apk, cleanupWarn, precleared>>

\* mutant: no default is assigned when the attribute is absent or not a number
MutDetectVersionNoDefault ==
    /\ pc = "DetectVersion"
    /\ compile_sdk' = IF extraction_dir.manifest.hasSdk
                      THEN PyInt(extraction_dir.manifest.sdk) ELSE <<>>
    /\ Pass(Entry("DetectVersion", "none", "manifest", "none", FALSE, TRUE), "Repack")
    /\ UNCHANGED <<hdrVars, fsVars, cleanupWarn, precleared>>

\* _check_compile_sdk_version (never raises)
DetectVersion ==
    /\ pc = "DetectVersion"
    /\ compile_sdk' = << CheckCompileSdkVersion(extraction_dir.manifest) >>
    /\ Pass(Entry("DetectVersion", "none", "manifest", "none", FALSE, TRUE), "Repack")
    /\ UNCHANGED <<hdrVars, fsVars, cleanupWarn, precleared>>

\* mutant: the modern branch signs the intermediate step away, without aligning
MutAfterRepackSkipsAlign(sdk) ==
    IF sdk = <<>> THEN "raise"
    ELSE IF ModernBranch(sdk[1]) THEN "SignModern" ELSE "SignLegacy"

\* cut(): the stage after _repackage_apk, `if self.compile_sdk >= 30`;
\* comparing None with 30 raises TypeError
AfterRepack(sdk) ==
    IF sdk = <<>> THEN "raise"
    ELSE IF ModernBranch(sdk[1]) THEN "Align" ELSE "SignLegacy"

\* cut(): the stage after _zipalign_apk
AfterAlign(sdk) ==
    IF sdk # <<>> /\ ModernBranch(sdk[1]) THEN "SignModern" ELSE "VerifyOutput"

\* what `apktool b` leaves at the intermediate path on exit 0
Repacked(old, dir, produced) ==
    IF produced
    THEN [exists |-> TRUE, fresh |-> TRUE, signed |-> FALSE,
          edited |-> dir.exists /\ dir.nsc = "literal" /\ dir.manifest.nscAttr = "ours"]
    ELSE old

\* _repackage_apk: post-condition `if not os.path.exists(self.patched_apk): raise`
RepackVerified(apk) == apk.exists

\* _repackage_apk: run `java -jar apktool -f b <dir> -o <patched> --use-aapt2`,
\* then the existence check, then cut()'s branch on compile_sdk
RepackageApk ==
    /\ pc = "Repack"
    /\ \E out \in Outcomes, produced \in BOOLEAN :
          /\ out # "zero" => ~produced
          /\ patched_apk' = Repacked(patched_apk, extraction_dir, produced)
          /\ IF RunCommandRaises(out, TRUE)
             THEN Fail(Entry("Repack", "apktool_b", "patched_apk", out, FALSE, FALSE))
             ELSE IF ~RepackVerified(patched_apk') \/ AfterRepack(compile_sdk) = "raise"
             THEN Fail(Entry("Repack", "apktool_b", "patched_apk", out, produced, FALSE))
             ELSE Pass(Entry("Repack", "apktool_b", "patched_apk", out, produced, TRUE),
                       AfterRepack(compile_sdk))
    /\ UNCHANGED <<hdrVars, compile_sdk, extraction_dir, zipaligned_apk, cleanupWarn, precleared>>

\* a signer that exits 0 has signed its target in place; `kept` is whether the
\* target is still on disk afterwards
Signed(apk, kept) == IF kept THEN [apk EXCEPT !.signed = TRUE] ELSE NoFile

\* _jarsign_apk: getsize(patched_apk), then jarsigner on patched_apk
JarsignApk ==
    /\ pc = "SignLegacy"
    /\ IF ~patched_apk.exists
       THEN /\ patched_apk' = patched_apk      \* os.path.getsize raises
            /\ Fail(Entry("SignLegacy", "none", "patched_apk", "none", FALSE, FALSE))
       ELSE \E out \in Outcomes, kept \in BOOLEAN :
               /\ out # "zero" => kept
               /\ patched_apk' = IF out = "zero" THEN Signed(patched_apk, kept)
                                 ELSE patched_apk
               /\ IF RunCommandRaises(out, TRUE)
                  THEN Fail(Entry("SignLegacy", "jarsigner", "patched_apk", out, FALSE, FALSE))
                  ELSE Pass(Entry("SignLegacy", "jarsigner", "patched_apk", out, kept, TRUE),
                            "Align")
    /\ UNCHANGED <<hdrVars, compile_sdk, extraction_dir, zipaligned_apk, cleanupWarn, precleared>>

\* what zipalign leaves at the final path on exit 0
Aligned(old, src, produced) ==
    IF produced
    THEN [exists |-> TRUE, fresh |-> TRUE, signed |-> src.signed, edited |-> src.edited]
    ELSE old

\* _zipalign_apk: post-condition `if not os.path.exists(self.zipaligned_apk): raise`
AlignVerified(apk) == apk.exists

\* _zipalign_apk: getsize(patched_apk), zipalign patched_apk -> zipaligned_apk,
\* then the existence check
ZipalignApk ==
    /\ pc = "Align"
    /\ IF ~patched_apk.exists
       THEN /\ zipaligned_apk' = zipaligned_apk      \* os.path.getsize raises
            /\ Fail(Entry("Align", "none", "zipaligned_apk", "none", FALSE, FALSE))
       ELSE \E out \in Outcomes, produced \in BOOLEAN :
               /\ out # "zero" => ~produced
               /\ zipaligned_apk' = Aligned(zipaligned_apk, patched_apk, produced)
               /\ IF RunCommandRaises(out, TRUE)
                  THEN Fail(Entry("Align", "zipalign", "zipaligned_apk", out, FALSE, FALSE))
                  ELSE IF ~AlignVerified(zipaligned_apk')
                  THEN Fail(Entry("Align", "zipalign", "zipaligned_apk", out, produced, FALSE))
                  ELSE Pass(Entry("Align", "zipalign", "zipaligned_apk", out, produced, TRUE),
                            AfterAlign(compile_sdk))
    /\ UNCHANGED <<hdrVars, compile_sdk, extraction_dir, patched_apk, cleanupWarn, precleared>>

\* _apksign_apk: getsize(zipaligned_apk), then apksigner on zipaligned_apk
ApksignApk ==
    /\ pc = "SignModern"
    /\ IF ~zipaligned_apk.exists
       THEN /\ zipaligned_apk' = zipaligned_apk      \* os.path.getsize raises
            /\ Fail(Entry("SignModern", "none", "zipaligned_apk", "none", FALSE, FALSE))
       ELSE \E out \in Outcomes, kept \in BOOLEAN :
               /\ out # "zero" => kept
               /\ zipaligned_apk' = IF out = "zero" THEN Signed(zipaligned_apk, kept)
                                    ELSE zipaligned_apk
               /\ IF RunCommandRaises(out, TRUE)
                  THEN Fail(Entry("SignModern", "apksigner", "zipaligned_apk", out, FALSE, FALSE))
                  ELSE Pass(Entry("SignModern", "apksigner", "zipaligned_apk", out, kept, TRUE),
                            "VerifyOutput")
    /\ UNCHANGED <<hdrVars, compile_sdk, extraction_dir, patched_apk, cleanupWarn, precleared>>

\* mutant: the final existence check is left out
MutOutputNotVerified(apk) == TRUE

\* cut(): `if os.path.exists(final_apk)`
OutputVerified(apk) == apk.exists

\* mutant: a run that fails the final check rolls its intermediate files back
MutVerifyOutputRollsBack ==
    /\ pc = "VerifyOutput"
    /\ IF OutputVerified(zipaligned_apk)
       THEN /\ log' = Append(log, Entry("VerifyOutput", "none", "zipaligned_apk",
                                        "none", FALSE, TRUE))
            /\ IF keep_files
               THEN pc' = "returned" /\ result' = "True"
               ELSE pc' = "Cleanup" /\ result' = result
            /\ UNCHANGED fsVars
       ELSE /\ Fail(Entry("VerifyOutput", "none", "zipaligned_apk", "none", FALSE, FALSE))
            /\ extraction_dir' = NoDir
            /\ patched_apk' = NoFile
            /\ UNCHANGED zipaligned_apk
    /\ UNCHANGED <<hdrVars, compile_sdk, cleanupWarn, precleared>>

\* cut(): the final check; with keep_files the run ends here
VerifyOutput ==
    /\ pc = "VerifyOutput"
    /\ IF OutputVerified(zipaligned_apk)
       THEN /\ log' = Append(log, Entry("VerifyOutput", "none", "zipaligned_apk",
                                        "none", FALSE, TRUE))
            /\ IF keep_files
               THEN pc' = "returned" /\ result' = "True"
               ELSE pc' = "Cleanup" /\ result' = result
       ELSE Fail(Entry("VerifyOutput", "none", "zipaligned_apk", "none", FALSE, FALSE))
    /\ UNCHANGED <<hdrVars, compile_sdk, fsVars, cleanupWarn, precleared>>

\* mutant: the intermediate archive is forgotten
MutCleanupDirOnly == {"dir"}

\* _cleanup_files: what it removes, the extraction directory and the
\* intermediate archive (patched_apk != zipaligned_apk for every bundle name)
CleanupTargets == {"dir", "file"}

\* mutant: a removal that fails makes the run fail
MutAfterCleanupFatal(warn, apk) == IF apk.exists /\ warn = {} THEN "True" ELSE "False"

\* cut() after _cleanup_files: the warnings are only printed; getsize(final_apk)
\* and `return True`
AfterCleanup(warn, apk) == IF apk.exists THEN "True" ELSE "False"

\* _cleanup_files: each removal is attempted if its target exists and may fail
\* with a warning; afterwards cut() takes getsize(final_apk) and returns True
CleanupFiles ==
    /\ pc = "Cleanup"
    /\ \E dirFails \in BOOLEAN, fileFails \in BOOLEAN :
          /\ dirFails => extraction_dir.exists /\ "dir" \in CleanupTargets
          /\ fileFails => patched_apk.exists /\ "file" \in CleanupTargets
          /\ extraction_dir' = IF "dir" \in CleanupTargets /\ ~dirFails
                               THEN NoDir ELSE extraction_dir
          /\ patched_apk' = IF "file" \in CleanupTargets /\ ~fileFails
                            THEN NoFile ELSE patched_apk
          /\ cleanupWarn' = {w \in {"dir", "file"} :
                                (w = "dir" /\ dirFails) \/ (w = "file" /\ fileFails)}
    /\ log' = Append(log, Entry("Cleanup", "none", "extraction_dir", "none", FALSE, TRUE))
    /\ result' = AfterCleanup(cleanupWarn', zipaligned_apk)
    /\ pc' = "returned"
    /\ UNCHANGED <<hdrVars, compile_sdk, zipaligned_apk, precleared>>

----------------------------------------------------------------------------

Next ==
    \/ HandleArgs
    \/ MainValidate
    \/ MainConstruct
    \/ MainExit
    \/ ProcessEnd
    \/ LibConstruct
    \/ LibReturn
    \/ EnvBundle
    \/ CutEntry
    \/ ClearExtraction
    \/ RunUnpack
    \/ AddNetworkFile
    \/ AddNetworkAttributeToManifest
    \/ DetectVersion
    \/ RepackageApk
    \/ JarsignApk
    \/ ZipalignApk
    \/ ApksignApk
    \/ VerifyOutput
    \/ CleanupFiles

Spec == Init /\ [][Next]_vars

----------------------------------------------------------------------------
(* The command runner: one call of _run_command against one child process. *)
(* Output is counted in lines.  A pipe holds at most PipeCap lines; a       *)
(* write to a full pipe blocks the child, readline() on an empty pipe       *)
(* blocks the runner until a line arrives or the child has exited (EOF).    *)

PipeCap == 2
MaxWrites == 4

Streams == {"out", "err"}

RECURSIVE WriteScripts(_)
\* every order in which a child can write n lines to its two streams
WriteScripts(n) ==
    IF n = 0 THEN {<<>>}
    ELSE {<<>>} \cup {<<st>> \o w : st \in Streams, w \in WriteScripts(n - 1)}

\* mutant: a failed launch is swallowed whatever `check` says
MutRunCommandOutcomeNeverRaisesLaunch(launched, rc, check) ==
    IF ~launched THEN "returned_exception"
    ELSE IF check /\ rc # 0 THEN "raised_CommandError"
    ELSE "returned_result"

\* _run_command: how the call ends.  Everything raised inside the try block
\* lands in `except Exception as e: ... if check: raise; return e`
RunCommandOutcome(launched, rc, check) ==
    IF ~launched
    THEN IF check THEN "raised_launch" ELSE "returned_exception"
    ELSE IF check /\ rc # 0 THEN "raised_CommandError"
    ELSE "returned_result"

RunnerInit ==
    /\ PipelineIdle
    /\ rpc = "start"
    /\ rcheck \in BOOLEAN
    /\ child \in [state : {"none"}, todo : WriteScripts(MaxWrites), rc : {0, 1}]
    /\ pipes = NoLines
    /\ rbuf = NoLines
    /\ routcome = "none"
    /\ profile = NoProfile
    /\ history = <<>>
    /\ StudyIdle

pipelineVars == <<pc, caller, argv, apkIsFile, objVars, fsVars, runVars, exitStatus>>

\* subprocess.Popen(...): raises OSError when the program cannot be started
Popen ==
    /\ rpc = "start"
    /\ \E launched \in BOOLEAN :
          IF launched
          THEN /\ child' = [child EXCEPT !.state = "running"]
               /\ rpc' = "poll"
               /\ routcome' = routcome
          ELSE /\ child' = child
               /\ rpc' = "done"
               /\ routcome' = RunCommandOutcome(FALSE, child.rc, rcheck)
    /\ UNCHANGED <<pipelineVars, rcheck, pipes, rbuf, detVars, studyVars>>

\* the child writes its next line; the write blocks while the pipe is full
ChildWrite ==
    /\ child.state = "running"
    /\ child.todo # <<>>
    /\ pipes[Head(child.todo)] < PipeCap
    /\ pipes' = [pipes EXCEPT ![Head(child.todo)] = @ + 1]
    /\ child' = [child EXCEPT !.todo = Tail(@)]
    /\ UNCHANGED <<pipelineVars, rpc, rcheck, rbuf, routcome, detVars, studyVars>>

\* the child has written everything and exits, which closes its pipe ends
ChildExit ==
    /\ child.state = "running"
    /\ child.todo = <<>>
    /\ child' = [child EXCEPT !.state = "exited"]
    /\ UNCHANGED <<pipelineVars, rpc, rcheck, pipes, rbuf, routcome, detVars, studyVars>>

\* `while process.poll() is None:`
Poll ==
    /\ rpc = "poll"
    /\ rpc' = IF child.state = "exited" THEN "communicate" ELSE "read_stdout"
    /\ UNCHANGED <<pipelineVars, rcheck, child, pipes, rbuf, routcome, detVars, studyVars>>

\* readline() on stream st can return: a buffered line, a line in the pipe,
\* or end of file
CanRead(st) == rbuf[st] > 0 \/ pipes[st] > 0 \/ child.state = "exited"

\* process.<st>.readline(): a buffered line is handed out first; otherwise one
\* read takes some of the lines in the pipe into the buffer and hands out one
ReadLine(st) ==
    /\ CanRead(st)
    /\ IF rbuf[st] > 0
       THEN rbuf' = [rbuf EXCEPT ![st] = @ - 1] /\ pipes' = pipes
       ELSE IF pipes[st] > 0
       THEN \E k \in 1..pipes[st] :
               /\ pipes' = [pipes EXCEPT ![st] = @ - k]
               /\ rbuf' = [rbuf EXCEPT ![st] = k - 1]
       ELSE rbuf' = rbuf /\ pipes' = pipes

\* `stdout = process.stdout.readline()`
ReadStdout ==
    /\ rpc = "read_stdout"
    /\ ReadLine("out")
    /\ rpc' = "read_stderr"
    /\ UNCHANGED <<pipelineVars, rcheck, child, routcome, detVars, studyVars>>

\* `stderr = process.stderr.readline()`, then the sleep and back to poll()
ReadStderr ==
    /\ rpc = "read_stderr"
    /\ ReadLine("err")
    /\ rpc' = "poll"
    /\ UNCHANGED <<pipelineVars, rcheck, child, routcome, detVars, studyVars>>

\* process.communicate() after the loop, the return-code check and the return
Communicate ==
    /\ rpc = "communicate"
    /\ pipes' = NoLines
    /\ rbuf' = NoLines
    /\ routcome' = RunCommandOutcome(TRUE, child.rc, rcheck)
    /\ rpc' = "done"
    /\ UNCHANGED <<pipelineVars, rcheck, child, detVars, studyVars>>

RunnerNext ==
    \/ Popen
    \/ ChildWrite
    \/ ChildExit
    \/ Poll
    \/ ReadStdout
    \/ ReadStderr
    \/ Communicate

SpecRunner == RunnerInit /\ [][RunnerNext]_vars

----------------------------------------------------------------------------
(* Two runs in a row, retention on, against deterministic tools: every     *)
(* invocation of a tool does what `profile` says, and shutil.rmtree of the *)
(* retained extraction directory either works every time or never.         *)

MaxRuns == 2

ToolNames == {"apktool_d", "apktool_b", "jarsigner", "zipalign", "apksigner"}

\* what one tool does each time: its outcome and, on exit 0, whether its
\* output (for a signer: its target) is on disk afterwards
ToolBehaviours ==
    {b \in [out : Outcomes, produced : BOOLEAN] : b.out # "zero" => ~b.produced}

Profiles ==
    {p \in [apktool_d : ToolBehaviours, apktool_b : ToolBehaviours,
            jarsigner : ToolBehaviours, zipalign : ToolBehaviours,
            apksigner : ToolBehaviours, manifest : Manifests \cup {NoManifest},
            nsc : UnpackedNsc, rmtreeOk : BOOLEAN] :
        ~p.apktool_d.produced => p.manifest = NoManifest /\ p.nsc = "none"}

DetInit ==
    /\ PipelineIdle
    /\ apkIsFile = TRUE
    /\ rpc = "off"
    /\ rcheck = TRUE
    /\ child = NoChild
    /\ pipes = NoLines
    /\ rbuf = NoLines
    /\ routcome = "none"
    /\ profile \in Profiles
    /\ history = <<>>
    /\ StudyIdle

\* the tool invocation logged by this step did what the profile says
ConformsTool ==
    LET e == log'[Len(log')]
    IN  e.tool \in ToolNames =>
            /\ e.out = profile[e.tool].out
            /\ e.out = "zero" => e.produced = profile[e.tool].produced

\* Interceptra(apk, keep_files=True) on the same bundle, up to MaxRuns times
DetStart ==
    /\ Len(history) < MaxRuns
    /\ LibConstruct
    /\ constructed'
    /\ keep_files'

\* shutil.rmtree in _decompile_apk behaves the same way in every run
DetClearExtraction ==
    /\ ClearExtraction
    /\ extraction_dir.exists => ((pc' = "UnpackRun") <=> profile.rmtreeOk)

\* `apktool d` unpacks the same bundle to the same tree
DetRunUnpack ==
    /\ RunUnpack
    /\ ConformsTool
    /\ log'[Len(log')].produced =>
          /\ extraction_dir'.manifest = profile.manifest
          /\ extraction_dir'.nsc = profile.nsc

DetRepackageApk == RepackageApk /\ ConformsTool
DetJarsignApk == JarsignApk /\ ConformsTool
DetZipalignApk == ZipalignApk /\ ConformsTool
DetApksignApk == ApksignApk /\ ConformsTool

\* what a run leaves behind, as far as the next run is compared with it
RunRecord ==
    [result |-> result, dir |-> extraction_dir.exists,
     nsc |-> extraction_dir.nsc, attr |-> extraction_dir.manifest.nscAttr]

\* cut() has returned; its outcome is noted
DetReturn ==
    /\ pc = "returned"
    /\ caller = "lib"
    /\ pc' = "idle"
    /\ history' = Append(history, RunRecord)
    /\ UNCHANGED <<caller, argv, apkIsFile, objVars, fsVars, runVars, exitStatus,
                   runnerVars, profile, studyVars>>

DetNext ==
    \/ DetStart
    \/ CutEntry
    \/ DetClearExtraction
    \/ DetRunUnpack
    \/ AddNetworkFile
    \/ AddNetworkAttributeToManifest
    \/ DetectVersion
    \/ DetRepackageApk
    \/ DetJarsignApk
    \/ DetZipalignApk
    \/ DetApksignApk
    \/ VerifyOutput
    \/ DetReturn

SpecDet == DetInit /\ [][DetNext]_vars

----------------------------------------------------------------------------
(* The working paths.  __init__ makes the bundle path absolute and puts    *)
(* all three working paths in its directory, so a path is represented by   *)
(* its base name, a sequence of characters.                                *)

MaxName == 3

NameChars == {"a", "b", "."}

\* base names a regular file can have ("." and ".." are never files)
BundleNames ==
    {n \in UNION {[1..k -> NameChars] : k \in 1..MaxName} :
        ~(Len(n) <= 2 /\ \A i \in 1..Len(n) : n[i] = ".")}

\* os.path.splitext(base)[0]: the name up to its last dot, unless that dot
\* has only dots (or nothing) in front of it; then the whole name
SplitExtRoot(name) ==
    LET dots == {i \in 1..Len(name) : name[i] = "."}
        dotIndex == IF dots = {} THEN 0
                    ELSE CHOOSE i \in dots : \A j \in dots : j <= i
    IN  IF dotIndex > 0 /\ \E i \in 1..(dotIndex - 1) : name[i] # "."
        THEN SubSeq(name, 1, dotIndex - 1)
        ELSE name

\* "_patched.apk"
PatchedSuffix == <<"_", "p", "a", "t", "c", "h", "e", "d", ".", "a", "p", "k">>
\* "_patched_zipaligned.apk"
ZipalignedSuffix ==
    <<"_", "p", "a", "t", "c", "h", "e", "d", "_", "z", "i", "p", "a", "l", "i", "g",
      "n", "e", "d", ".", "a", "p", "k">>

\* __init__: file_name, patched_apk, zipaligned_apk, extraction_dir
WorkingPaths(name) ==
    [extraction_dir |-> SplitExtRoot(name),
     patched_apk    |-> SplitExtRoot(name) \o PatchedSuffix,
     zipaligned_apk |-> SplitExtRoot(name) \o ZipalignedSuffix]

\* a bundle that is a regular file, with any of the names
PathsInit ==
    /\ PipelineIdle
    /\ rpc = "off"
    /\ rcheck = TRUE
    /\ child = NoChild
    /\ pipes = NoLines
    /\ rbuf = NoLines
    /\ routcome = "none"
    /\ profile = NoProfile
    /\ history = <<>>
    /\ apkIsFile = TRUE
    /\ bundle \in BundleNames
    /\ paths = NoPaths
    /\ ppc = "new"
    /\ touched = {}
    /\ rp = <<>>

pathsFrame == <<pipelineVars, runnerVars, detVars, bundle, rp>>

Touch(op, target) == touched' = touched \cup {[op |-> op, target |-> target]}

\* Interceptra(apk): the paths are computed once; the bundle is a regular file,
\* so cut() passes its isfile check
DeriveWorkingPaths ==
    /\ ppc = "new"
    /\ paths' = WorkingPaths(bundle)
    /\ ppc' = "Unpack"
    /\ UNCHANGED <<pathsFrame, touched>>

\* _decompile_apk: `if os.path.exists(self.extraction_dir): shutil.rmtree(...)`.
\* The path exists for sure when it is the bundle itself, and rmtree of a
\* regular file raises; otherwise something may be there from an earlier run
\* and its removal may fail
PathsPreClear ==
    /\ ppc = "Unpack"
    /\ \E there \in BOOLEAN, removed \in BOOLEAN :
          /\ paths.extraction_dir = bundle => (there /\ ~removed)
          /\ ~there => removed
          /\ IF there
             THEN Touch("rmtree", paths.extraction_dir)
             ELSE touched' = touched
          /\ ppc' = IF removed THEN "UnpackRun" ELSE "failed"
    /\ UNCHANGED <<pathsFrame, paths>>

\* `apktool -f d <apk> -o <extraction_dir>`
PathsUnpack ==
    /\ ppc = "UnpackRun"
    /\ Touch("write", paths.extraction_dir)
    /\ ppc' = "Repack"
    /\ UNCHANGED <<pathsFrame, paths>>

\* `apktool -f b <extraction_dir> -o <patched_apk>` (jarsigner signs it in place)
PathsRepack ==
    /\ ppc = "Repack"
    /\ Touch("write", paths.patched_apk)
    /\ ppc' = "Align"
    /\ UNCHANGED <<pathsFrame, paths>>

\* `zipalign -p -f 4 <patched_apk> <zipaligned_apk>` (apksigner signs it in place)
PathsAlign ==
    /\ ppc = "Align"
    /\ Touch("write", paths.zipaligned_apk)
    /\ ppc' = "Cleanup"
    /\ UNCHANGED <<pathsFrame, paths>>

\* _cleanup_files: rmtree(extraction_dir); os.remove(patched_apk) when it is
\* not the final archive
PathsCleanup ==
    /\ ppc = "Cleanup"
    /\ touched' = touched
          \cup {[op |-> "rmtree", target |-> paths.extraction_dir]}
          \cup (IF paths.patched_apk # paths.zipaligned_apk
                THEN {[op |-> "remove", target |-> paths.patched_apk]} ELSE {})
    /\ ppc' = "done"
    /\ UNCHANGED <<pathsFrame, paths>>

PathsNext ==
    \/ DeriveWorkingPaths
    \/ PathsPreClear
    \/ PathsUnpack
    \/ PathsRepack
    \/ PathsAlign
    \/ PathsCleanup

SpecPaths == PathsInit /\ [][PathsNext]_vars

----------------------------------------------------------------------------
(* Two Interceptra objects (two processes) on the same bundle, their cut() *)
(* calls interleaved stage by stage.  Both derive the same three working   *)
(* paths, so extraction_dir, patched_apk and zipaligned_apk are shared;    *)
(* rp.obj[i] holds what is private to object i.  `hit` notes that another  *)
(* object removed or replaced something this object had prepared and not   *)
(* yet used.                                                               *)

Procs == {1, 2}

\* the bundle both objects work on
RaceManifests ==
    {OkManifest(TRUE, <<"2", "9">>, "none"), OkManifest(TRUE, <<"3", "0">>, "none")}

\* positions at which the object has injected into the tree and not yet repacked it
TreeInUse == {"EditManifest", "DetectVersion", "Repack"}
\* positions at which the object has built patched_apk and not yet aligned it
ArchiveInUse == {"SignLegacy", "Align"}

RaceInit ==
    /\ PipelineIdle
    /\ apkIsFile = TRUE
    /\ rpc = "off"
    /\ rcheck = TRUE
    /\ child = NoChild
    /\ pipes = NoLines
    /\ rbuf = NoLines
    /\ routcome = "none"
    /\ profile = NoProfile
    /\ history = <<>>
    /\ bundle = <<>>
    /\ paths = NoPaths
    /\ ppc = "off"
    /\ touched = {}
    /\ rp \in [obj : [Procs -> [pc : {"cut"}, keep : BOOLEAN, sdk : {<<>>},
                                result : {"none"}, hit : {FALSE}]],
                manifest : RaceManifests,
                nsc : UnpackedNsc]

raceFrame == <<pc, caller, argv, apkIsFile, objVars, runVars, exitStatus,
               runnerVars, detVars, pathVars>>

RFail(i) == [rp.obj[i] EXCEPT !.pc = "returned", !.result = "False"]
RGo(i, next) == [rp.obj[i] EXCEPT !.pc = next]

\* object i moves on as `rec`; dirGone / fileGone: the step removed or replaced
\* the extraction directory / the intermediate archive under the other object
Step(i, rec, dirGone, fileGone) ==
    rp' = [rp EXCEPT !.obj =
              [j \in Procs |->
                  IF j = i THEN rec
                  ELSE [rp.obj[j] EXCEPT !.hit =
                           \/ @
                           \/ dirGone /\ rp.obj[j].pc \in TreeInUse
                           \/ fileGone /\ rp.obj[j].pc \in ArchiveInUse]]]

\* cut(): the isfile check (the bundle stays on disk throughout)
RCutEntry(i) ==
    /\ rp.obj[i].pc = "cut"
    /\ Step(i, IF apkIsFile THEN RGo(i, "Unpack") ELSE RFail(i), FALSE, FALSE)
    /\ UNCHANGED <<raceFrame, fsVars>>

\* _decompile_apk, first half: rmtree of whatever is at the extraction path
RClearExtraction(i) ==
    /\ rp.obj[i].pc = "Unpack"
    /\ IF extraction_dir.exists
       THEN \E removed \in BOOLEAN :
               IF removed
               THEN /\ extraction_dir' = NoDir
                    /\ Step(i, RGo(i, "UnpackRun"), TRUE, FALSE)
               ELSE /\ extraction_dir' = extraction_dir
                    /\ Step(i, RFail(i), FALSE, FALSE)
       ELSE /\ extraction_dir' = extraction_dir
            /\ Step(i, RGo(i, "UnpackRun"), FALSE, FALSE)
    /\ UNCHANGED <<raceFrame, patched_apk, zipaligned_apk>>

\* _decompile_apk, second half: `apktool -f d` writes the bundle's tree
RRunUnpack(i) ==
    /\ rp.obj[i].pc = "UnpackRun"
    /\ \E out \in Outcomes, produced \in BOOLEAN :
          /\ out # "zero" => ~produced
          /\ extraction_dir' = Unpacked(extraction_dir, produced, rp.manifest, rp.nsc)
          /\ Step(i, IF RunCommandRaises(out, TRUE) THEN RFail(i)
                     ELSE RGo(i, "InjectConfig"), produced, FALSE)
    /\ UNCHANGED <<raceFrame, patched_apk, zipaligned_apk>>

\* _add_network_file
RAddNetworkFile(i) ==
    /\ rp.obj[i].pc = "InjectConfig"
    /\ extraction_dir' =
          IF extraction_dir.exists
          THEN [extraction_dir EXCEPT !.nsc = "literal"]
          ELSE [NoDir EXCEPT !.exists = TRUE, !.fresh = TRUE, !.nsc = "literal"]
    /\ Step(i, RGo(i, "EditManifest"), FALSE, FALSE)
    /\ UNCHANGED <<raceFrame, patched_apk, zipaligned_apk>>

\* _add_network_attribute_to_manifest
RAddNetworkAttributeToManifest(i) ==
    /\ rp.obj[i].pc = "EditManifest"
    /\ IF ManifestEditable(extraction_dir.manifest)
       THEN /\ extraction_dir' = [extraction_dir EXCEPT !.manifest = EditedManifest(@)]
            /\ Step(i, RGo(i, "DetectVersion"), FALSE, FALSE)
       ELSE /\ extraction_dir' = extraction_dir
            /\ Step(i, RFail(i), FALSE, FALSE)
    /\ UNCHANGED <<raceFrame, patched_apk, zipaligned_apk>>

\* _check_compile_sdk_version
RDetectVersion(i) ==
    /\ rp.obj[i].pc = "DetectVersion"
    /\ Step(i, [rp.obj[i] EXCEPT !.pc = "Repack",
                   !.sdk = << CheckCompileSdkVersion(extraction_dir.manifest) >>],
            FALSE, FALSE)
    /\ UNCHANGED <<raceFrame, fsVars>>

\* _repackage_apk and the branch on compile_sdk
RRepackageApk(i) ==
    /\ rp.obj[i].pc = "Repack"
    /\ \E out \in Outcomes, produced \in BOOLEAN :
          /\ out # "zero" => ~produced
          /\ patched_apk' = Repacked(patched_apk, extraction_dir, produced)
          /\ Step(i, IF \/ RunCommandRaises(out, TRUE)
                        \/ ~RepackVerified(patched_apk')
                        \/ AfterRepack(rp.obj[i].sdk) = "raise"
                     THEN RFail(i)
                     ELSE RGo(i, AfterRepack(rp.obj[i].sdk)), FALSE, FALSE)
    /\ UNCHANGED <<raceFrame, extraction_dir, zipaligned_apk>>

\* _jarsign_apk
RJarsignApk(i) ==
    /\ rp.obj[i].pc = "SignLegacy"
    /\ IF ~patched_apk.exists
       THEN /\ patched_apk' = patched_apk
            /\ Step(i, RFail(i), FALSE, FALSE)
       ELSE \E out \in Outcomes, kept \in BOOLEAN :
               /\ out # "zero" => kept
               /\ patched_apk' = IF out = "zero" THEN Signed(patched_apk, kept)
                                 ELSE patched_apk
               /\ Step(i, IF RunCommandRaises(out, TRUE) THEN RFail(i)
                          ELSE RGo(i, "Align"), FALSE, FALSE)
    /\ UNCHANGED <<raceFrame, extraction_dir, zipaligned_apk>>

\* _zipalign_apk
RZipalignApk(i) ==
    /\ rp.obj[i].pc = "Align"
    /\ IF ~patched_apk.exists
       THEN /\ zipaligned_apk' = zipaligned_apk
            /\ Step(i, RFail(i), FALSE, FALSE)
       ELSE \E out \in Outcomes, produced \in BOOLEAN :
               /\ out # "zero" => ~produced
               /\ zipaligned_apk' = Aligned(zipaligned_apk, patched_apk, produced)
               /\ Step(i, IF RunCommandRaises(out, TRUE) \/ ~AlignVerified(zipaligned_apk')
                          THEN RFail(i)
                          ELSE RGo(i, AfterAlign(rp.obj[i].sdk)), FALSE, FALSE)
    /\ UNCHANGED <<raceFrame, extraction_dir, patched_apk>>

\* _apksign_apk
RApksignApk(i) ==
    /\ rp.obj[i].pc = "SignModern"
    /\ IF ~zipaligned_apk.exists
       THEN /\ zipaligned_apk' = zipaligned_apk
            /\ Step(i, RFail(i), FALSE, FALSE)
       ELSE \E out \in Outcomes, kept \in BOOLEAN :
               /\ out # "zero" => kept
               /\ zipaligned_apk' = IF out = "zero" THEN Signed(zipaligned_apk, kept)
                                    ELSE zipaligned_apk
               /\ Step(i, IF RunCommandRaises(out, TRUE) THEN RFail(i)
                          ELSE RGo(i, "VerifyOutput"), FALSE, FALSE)
    /\ UNCHANGED <<raceFrame, extraction_dir, patched_apk>>

\* cut(): `if os.path.exists(final_apk)`; with keep_files the run ends here
RVerifyOutput(i) ==
    /\ rp.obj[i].pc = "VerifyOutput"
    /\ Step(i, IF ~OutputVerified(zipaligned_apk) THEN RFail(i)
               ELSE IF rp.obj[i].keep
               THEN [rp.obj[i] EXCEPT !.pc = "returned", !.result = "True"]
               ELSE RGo(i, "Cleanup"), FALSE, FALSE)
    /\ UNCHANGED <<raceFrame, fsVars>>

\* _cleanup_files, then getsize(final_apk) and `return True`
RCleanupFiles(i) ==
    /\ rp.obj[i].pc = "Cleanup"
    /\ \E dirFails \in BOOLEAN, fileFails \in BOOLEAN :
          /\ dirFails => extraction_dir.exists
          /\ fileFails => patched_apk.exists
          /\ extraction_dir' = IF dirFails THEN extraction_dir ELSE NoDir
          /\ patched_apk' = IF fileFails THEN patched_apk ELSE NoFile
          /\ Step(i, [rp.obj[i] EXCEPT !.pc = "returned",
                         !.result = AfterCleanup({}, zipaligned_apk)],
                  extraction_dir.exists /\ ~dirFails, patched_apk.exists /\ ~fileFails)
    /\ UNCHANGED <<raceFrame, zipaligned_apk>>

RaceNext ==
    \E i \in Procs :
        \/ RCutEntry(i)
        \/ RClearExtraction(i)
        \/ RRunUnpack(i)
        \/ RAddNetworkFile(i)
        \/ RAddNetworkAttributeToManifest(i)
        \/ RDetectVersion(i)
        \/ RRepackageApk(i)
        \/ RJarsignApk(i)
        \/ RZipalignApk(i)
        \/ RApksignApk(i)
        \/ RVerifyOutput(i)
        \/ RCleanupFiles(i)

SpecRace == RaceInit /\ [][RaceNext]_vars

----------------------------------------------------------------------------
(* Properties *)

LogIdx == 1..Len(log)

StagesRun == { log[i].stage : i \in LogIdx }

\* the run of cut() is over (its log and result stay until the next start)
RunOver == pc \in {"returned", "exited", "idle"}

\* position of a stage in the pipeline for detected version sdk
Rank(stage, sdk) ==
    CASE stage = "Unpack"        -> 1
      [] stage = "InjectConfig"  -> 2
      [] stage = "EditManifest"  -> 3
      [] stage = "DetectVersion" -> 4
      [] stage = "Repack"        -> 5
      [] stage = "Align"         -> IF sdk # <<>> /\ sdk[1] >= 30 THEN 6 ELSE 7
      [] stage = "SignModern"    -> 7
      [] stage = "SignLegacy"    -> 6
      [] stage = "VerifyOutput"  -> 8
      [] stage = "Cleanup"       -> 9
      [] OTHER                   -> 0

\* C1: once an external tool exits with a non-zero code, that invocation is
\* the last thing the run does: no later stage or tool is logged, cut() is
\* over and its result is False.
C1_NonZeroExitAborts ==
    \A i \in LogIdx :
        log[i].out = "nonzero" =>
            /\ i = Len(log)
            /\ ~log[i].ok
            /\ RunOver
            /\ result = "False"

\* C1 witness: a signer in the middle of the pipeline exited non-zero.
C1_Witness ==
    /\ Len(log) = 6
    /\ log[6].tool = "jarsigner"
    /\ log[6].out = "nonzero"
    /\ extraction_dir.exists /\ patched_apk.exists

\* C2: the i-th thing a run executes is the i-th stage of the pipeline for the
\* detected version (so the order is fixed and no stage or tool runs twice),
\* every stage before the last logged one completed, and a stage about to run
\* has exactly its predecessors behind it.
C2_StrictStageOrder ==
    /\ \A i \in LogIdx :
          /\ Rank(log[i].stage, compile_sdk) = i
          /\ i < Len(log) => log[i].ok
    /\ pc \in {"UnpackRun", "InjectConfig", "EditManifest", "DetectVersion", "Repack",
               "Align", "SignLegacy", "SignModern", "VerifyOutput", "Cleanup"} =>
          /\ Len(log) = Rank(IF pc = "UnpackRun" THEN "Unpack" ELSE pc, compile_sdk) - 1
          /\ \A i \in LogIdx : log[i].ok
    /\ pc \in {"cut", "Unpack"} => log = <<>>
    /\ result = "True" => Len(log) >= 8 /\ \A i \in LogIdx : log[i].ok

\* C2 witness: a complete legacy-branch run including Cleanup.
C2_Witness ==
    /\ Len(log) = 9
    /\ log[6].stage = "SignLegacy"
    /\ log[7].stage = "Align"
    /\ log[9].stage = "Cleanup"
    /\ result = "True"

\* position in the log of the entry of a stage, 0 if it has not run
Pos(stage) ==
    IF stage \in StagesRun THEN CHOOSE i \in LogIdx : log[i].stage = stage ELSE 0

\* C3 (as claimed): with v >= 30 the run aligns the intermediate archive and
\* then runs the modern signer on the aligned archive and never the legacy
\* signer; with v < 30 it runs the legacy signer on the intermediate archive
\* and then aligns and never runs the modern signer; 30 is modern, 29 legacy;
\* and on success the delivered aligned archive exists and is signed.  (The
\* final path is only ever written by the alignment tool, so whatever is
\* there is aligned.)
C3_Orig_SigningStrategy ==
    /\ \A i \in LogIdx :
          /\ log[i].stage = "SignLegacy" =>
                compile_sdk # <<>> /\ compile_sdk[1] < 30 /\ log[i].target = "patched_apk"
          /\ log[i].stage = "SignModern" =>
                /\ compile_sdk # <<>> /\ compile_sdk[1] >= 30
                /\ log[i].target = "zipaligned_apk"
                /\ Pos("Align") = i - 1
          /\ (log[i].stage = "Align" /\ compile_sdk[1] < 30) => Pos("SignLegacy") = i - 1
          /\ (log[i].stage = "Align" /\ compile_sdk[1] >= 30) => Pos("Repack") = i - 1
    /\ result = "True" =>
          /\ "Align" \in StagesRun
          /\ compile_sdk[1] >= 30 => "SignModern" \in StagesRun
          /\ compile_sdk[1] < 30 => "SignLegacy" \in StagesRun
          /\ zipaligned_apk.exists
          /\ zipaligned_apk.signed

\* C4: cut() returns True only with the final aligned archive on disk; when
\* VerifyOutput finds it absent the run returns False and Cleanup does not
\* run, so the extraction directory and the intermediate archive stay.
C4_SuccessNeedsOutput ==
    /\ result = "True" => zipaligned_apk.exists
    /\ "Cleanup" \in StagesRun => zipaligned_apk.exists
    /\ (Len(log) > 0 /\ log[Len(log)].stage = "VerifyOutput" /\ ~zipaligned_apk.exists) =>
          /\ result = "False"
          /\ RunOver
          /\ ~log[Len(log)].ok
          /\ extraction_dir.exists

\* C4 witness: every command exited 0, yet the aligned archive is gone when
\* VerifyOutput looks for it (retention disabled, so Cleanup would have run).
C4_Witness ==
    /\ Len(log) = 8
    /\ log[8].stage = "VerifyOutput"
    /\ \A i \in LogIdx : log[i].out \in {"none", "zero"}
    /\ ~zipaligned_apk.exists
    /\ ~keep_files
    /\ result = "False"
    /\ patched_apk.exists

\* C5 (as claimed): a repack command that exits 0 without producing the
\* intermediate archive ends the run there with failure: no signing, no
\* alignment, no success, whatever earlier runs left on disk.
C5_Orig_RepackMustProduce ==
    \A i \in LogIdx :
        (log[i].stage = "Repack" /\ log[i].out = "zero" /\ ~log[i].produced) =>
            /\ ~log[i].ok
            /\ i = Len(log)
            /\ result = "False"
            /\ RunOver

\* C6: after a successful run without retention whose removals did not fail,
\* the extraction directory and the intermediate archive are gone and the
\* final aligned archive is there; after a successful run with retention all
\* three are there.
C6_CleanupOnSuccess ==
    /\ (result = "True" /\ ~keep_files /\ cleanupWarn = {}) =>
          /\ ~extraction_dir.exists
          /\ ~patched_apk.exists
          /\ zipaligned_apk.exists
    /\ (result = "True" /\ keep_files) =>
          /\ extraction_dir.exists
          /\ patched_apk.exists
          /\ zipaligned_apk.exists
          /\ "Cleanup" \notin StagesRun

\* C6 witness: a successful run without retention has cleaned up.
C6_Witness ==
    /\ result = "True"
    /\ ~keep_files
    /\ cleanupWarn = {}
    /\ "Cleanup" \in StagesRun
    /\ ~extraction_dir.exists /\ ~patched_apk.exists /\ zipaligned_apk.exists

\* the version the claim expects for each compileSdkVersion text tried
ExpectedSdk(m) ==
    IF m.kind # "ok" \/ ~m.hasSdk THEN 30
    ELSE CASE m.sdk = <<"2", "9">> -> 29
           [] m.sdk = <<"3", "0">> -> 30
           [] m.sdk = <<"3", "1">> -> 31
           [] m.sdk = <<"-", "1">> -> 0 - 1
           [] OTHER               -> 30      \* "3a": not an integer

\* C7: DetectVersion never fails the run: its log entry is always a completed
\* stage followed by Repack, and right after it the detected version is the
\* attribute's integer when it is one and 30 when the attribute is absent or
\* not an integer.
C7_DetectVersionDefaults ==
    /\ \A i \in LogIdx :
          log[i].stage = "DetectVersion" =>
              /\ log[i].ok
              /\ compile_sdk # <<>>
              /\ i = Len(log) => pc = "Repack"
    /\ pc = "Repack" =>
          /\ Len(log) = 4 /\ log[4].stage = "DetectVersion"
          /\ compile_sdk = << ExpectedSdk(extraction_dir.manifest) >>

\* C7 witness: a non-numeric attribute has been defaulted to 30 and the run
\* is about to repack.
C7_Witness ==
    /\ pc = "Repack"
    /\ extraction_dir.manifest.hasSdk
    /\ extraction_dir.manifest.sdk = <<"3", "a">>
    /\ compile_sdk = <<30>>

\* C8: the unpack tool is only ever invoked with no extraction directory on
\* disk, and the tree that InjectConfig, EditManifest, DetectVersion and Repack
\* see was created by the current run.
C8_NoStaleExtraction ==
    /\ pc = "UnpackRun" => ~extraction_dir.exists
    /\ (pc \in {"InjectConfig", "EditManifest", "DetectVersion", "Repack"}
            /\ extraction_dir.exists) => extraction_dir.fresh
    /\ pc \in {"EditManifest", "DetectVersion", "Repack"} => extraction_dir.exists

\* C8 witness: a directory left by an earlier run was removed and the current
\* run is repacking its own tree.
C8_Witness ==
    /\ pc = "Repack"
    /\ precleared
    /\ extraction_dir.exists /\ extraction_dir.fresh

\* C9 (as claimed): the process exits with 0 when the pipeline succeeded and
\* with 1 on every failure, a missing --apk argument included; no other
\* status occurs.
C9_Orig_ExitZeroOrOne ==
    exitStatus # <<>> =>
        /\ exitStatus[1] \in {0, 1}
        /\ result = "True" => exitStatus[1] = 0
        /\ (result # "True" /\ argv.kind # "help") => exitStatus[1] = 1

\* C9 (amended): the process exits with 0 when the pipeline succeeded (and
\* after --help), with 1 when the bundle is missing, construction raised or
\* the pipeline failed, and with 2 when the command line is rejected.
C9_ExitStatus ==
    exitStatus # <<>> =>
        /\ exitStatus[1] \in {0, 1, 2}
        /\ exitStatus[1] = 2 <=> argv.kind = "missing_apk"
        /\ exitStatus[1] = 0 <=> (result = "True" \/ argv.kind = "help")
        /\ result = "True" => (constructed /\ zipaligned_apk.exists)
        /\ (argv.kind = "ok" /\ ~constructed) => exitStatus[1] = 1

\* C9 witness: the command line lacked --apk and the process has exited.
C9_Witness ==
    /\ pc = "exited"
    /\ argv.kind = "missing_apk"
    /\ exitStatus = <<2>>
    /\ ~constructed

\* C10 (as claimed): an object is only ever constructed for a bundle path
\* that is a regular file at construction time.
C10_Orig_ConstructionChecksBundle ==
    constructed => ctorSawFile

\* C10 (amended): construction does not look at the bundle; an object built
\* for a missing bundle exists only when the class is used directly (main()
\* checks the path before constructing), and cut() on it returns False
\* before any stage runs.
C10_MissingBundleRejectedByCut ==
    (constructed /\ ~ctorSawFile) =>
        /\ caller = "lib"
        /\ log = <<>>
        /\ pc \in {"cut", "returned", "idle"}
        /\ pc # "cut" => result = "False"

\* C10 witness: an object was constructed for a missing bundle and its cut()
\* has returned False.
C10_Witness ==
    /\ constructed
    /\ ~ctorSawFile
    /\ pc = "returned"
    /\ result = "False"

\* C11: whenever the repack tool is about to be invoked the extraction
\* directory holds the injected resource with the literal content and a
\* manifest whose application element carries the attribute; every archive
\* on disk was therefore built from such a tree, the delivered one included.
C11_RepackSeesBothEdits ==
    /\ pc = "Repack" =>
          /\ extraction_dir.exists
          /\ extraction_dir.nsc = "literal"
          /\ extraction_dir.manifest.kind = "ok"
          /\ extraction_dir.manifest.nscAttr = "ours"
    /\ patched_apk.exists => patched_apk.edited
    /\ zipaligned_apk.exists => zipaligned_apk.edited
    /\ result = "True" => zipaligned_apk.exists /\ zipaligned_apk.edited

\* C11 witness: a bundle that shipped its own configuration and attribute
\* has been patched and delivered.
C11_Witness ==
    /\ result = "True"
    /\ keep_files
    /\ extraction_dir.nsc = "literal"
    /\ extraction_dir.manifest.nscAttr = "ours"
    /\ patched_apk.fresh /\ patched_apk.edited
    /\ zipaligned_apk.fresh /\ zipaligned_apk.edited

\* C14 (as stated): if the alignment command exits 0 without producing the
\* final aligned archive the run fails at Align and does not report success;
\* equivalently a successful run's aligned archive was written by this run.
C14_Orig_AlignMustProduce ==
    /\ \A i \in LogIdx :
          (log[i].stage = "Align" /\ log[i].out = "zero" /\ ~log[i].produced)
              => (~log[i].ok /\ i = Len(log) /\ result # "True")
    /\ result = "True" => zipaligned_apk.fresh

\* C15: a failing run performs no cleanup and no rollback: whatever the run
\* created before the failing stage is still on disk when cut() returns
\* False, whether or not retention was requested.  (The one way an archive
\* can be gone is a signing tool that exits 0 having removed its own target.)
C15_FailureLeavesFiles ==
    result = "False" =>
        /\ "Cleanup" \notin StagesRun
        /\ cleanupWarn = {}
        /\ \A i \in LogIdx :
              /\ (log[i].stage = "Unpack" /\ log[i].produced) =>
                     extraction_dir.exists /\ extraction_dir.fresh
              /\ (log[i].stage = "InjectConfig" /\ log[i].ok) =>
                     extraction_dir.exists /\ extraction_dir.nsc = "literal"
              /\ (log[i].stage = "EditManifest" /\ log[i].ok) =>
                     extraction_dir.exists /\ extraction_dir.manifest.nscAttr = "ours"
              /\ (log[i].stage = "Repack" /\ log[i].produced
                    /\ \A j \in LogIdx :
                          (log[j].tool = "jarsigner" /\ log[j].out = "zero")
                              => log[j].produced) =>
                     patched_apk.exists /\ patched_apk.fresh
              /\ (log[i].stage = "Align" /\ log[i].produced
                    /\ \A j \in LogIdx :
                          (log[j].tool = "apksigner" /\ log[j].out = "zero")
                              => log[j].produced) =>
                     zipaligned_apk.exists /\ zipaligned_apk.fresh

\* C15 witness: a run without retention fails at a signer after repack and
\* align both wrote their archives; all of it is still there.
C15_Witness ==
    /\ result = "False"
    /\ ~keep_files
    /\ extraction_dir.fresh /\ extraction_dir.nsc = "literal"
    /\ extraction_dir.manifest.nscAttr = "ours"
    /\ patched_apk.fresh
    /\ zipaligned_apk.fresh
    /\ Len(log) >= 7

\* C16: cleanup is advisory.  A removal that fails only leaves a warning;
\* the other removal is still carried out, and the run, whose aligned
\* archive exists, reports success.
C16_CleanupNonFatal ==
    "Cleanup" \in StagesRun =>
        /\ result = "True"
        /\ zipaligned_apk.exists
        /\ "dir" \in cleanupWarn => extraction_dir.exists
        /\ "dir" \notin cleanupWarn => ~extraction_dir.exists
        /\ "file" \in cleanupWarn => patched_apk.exists
        /\ "file" \notin cleanupWarn => ~patched_apk.exists

\* C16 witness: removing the extraction directory failed, the intermediate
\* archive was removed all the same and the run succeeded.
C16_Witness ==
    /\ "Cleanup" \in StagesRun
    /\ cleanupWarn = {"dir"}
    /\ extraction_dir.exists
    /\ ~patched_apk.exists
    /\ result = "True"

\* C17: with the manifest missing, or without a top-level application
\* element, EditManifest fails: the step leaves the extraction directory and
\* the archives as they were and ends the run with False, so no later stage
\* is ever entered and no version is detected.
C17_BadManifestStops ==
    /\ [][(pc = "EditManifest" /\ extraction_dir.manifest.kind \in {"missing", "noapp"}) =>
             /\ extraction_dir' = extraction_dir
             /\ patched_apk' = patched_apk /\ zipaligned_apk' = zipaligned_apk
             /\ compile_sdk' = compile_sdk
             /\ result' = "False" /\ pc' = "returned"
             /\ log' = Append(log, Entry("EditManifest", "none", "manifest",
                                         "none", FALSE, FALSE))]_vars
    /\ [](\A i \in LogIdx :
             (log[i].stage = "EditManifest" /\ ~log[i].ok) =>
                 (i = Len(log) /\ result = "False" /\ compile_sdk = <<>>))

\* C17 witness: a run stopped at EditManifest on a manifest without an
\* application element, which is still the manifest on disk.
C17_Witness ==
    /\ result = "False"
    /\ Len(log) = 3
    /\ log[3].stage = "EditManifest" /\ ~log[3].ok
    /\ extraction_dir.fresh
    /\ extraction_dir.manifest.kind = "noapp"
    /\ extraction_dir.manifest.nscAttr # "ours"
    /\ compile_sdk = <<>>

C20_VersionSetOnceBeforeBranch ==
    /\ [][compile_sdk' # compile_sdk =>
             \/ pc = "DetectVersion" /\ compile_sdk = <<>> /\ compile_sdk' # <<>>
             \/ compile_sdk' = <<>> /\ log' = <<>>]_vars       \* a new object
    /\ []((constructed /\ pc \in {"cut", "Unpack", "UnpackRun", "InjectConfig",
                                   "EditManifest", "DetectVersion"})
              => compile_sdk = <<>>)
    /\ []((pc \in {"Repack", "SignLegacy", "SignModern", "Align", "VerifyOutput", "Cleanup"}
             \/ "DetectVersion" \in StagesRun)
              => (compile_sdk # <<>> /\ compile_sdk[1] \in Int))
    /\ [](Cardinality({i \in LogIdx : log[i].stage = "DetectVersion"}) <= 1)

\* C20 witness: the branch was taken on the default that DetectVersion
\* assigned for a manifest without the attribute.
C20_Witness ==
    /\ pc \in {"SignModern", "Align"}
    /\ ~extraction_dir.manifest.hasSdk
    /\ compile_sdk = <<DefaultSdk>>
    /\ log[Len(log)].stage = "Repack"

\* the runner waits in readline() on stream st, which is empty and open,
\* while the child waits to write to the other stream, whose pipe is full
C13_Stuck(st, other) ==
    /\ rpc = (IF st = "out" THEN "read_stdout" ELSE "read_stderr")
    /\ ~CanRead(st)
    /\ child.state = "running"
    /\ child.todo # <<>>
    /\ Head(child.todo) = other
    /\ pipes[other] = PipeCap

\* C13 (as stated): for a child that writes finitely many lines to stdout
\* and stderr in any order and exits, the runner is never blocked reading
\* one stream while the child is blocked writing the other.
C13_Orig_NoReadWriteDeadlock ==
    ~(C13_Stuck("out", "err") \/ C13_Stuck("err", "out"))

\* C18 (as stated): a launch failure always propagates to the caller as an
\* exception distinct from the non-zero-exit failure, whatever `check` is.
C18_Orig_LaunchFailureAlwaysRaised ==
    (rpc = "done" /\ child.state = "none") => routcome = "raised_launch"

\* C18: a launch failure never ends as a command result or as the
\* non-zero-exit failure.  With check (the default, used by every stage) the
\* launch exception propagates to the caller; with check off the exception
\* object is handed back as the return value.
C18_LaunchFailure ==
    /\ (rpc = "done" /\ child.state = "none") =>
          /\ routcome = (IF rcheck THEN "raised_launch" ELSE "returned_exception")
          /\ pipes = NoLines /\ rbuf = NoLines
    /\ (rpc = "done" /\ child.state # "none") =>
          /\ child.state = "exited"
          /\ routcome = (IF rcheck /\ child.rc # 0 THEN "raised_CommandError"
                         ELSE "returned_result")
    /\ rpc # "done" => routcome = "none"

\* C18 witness: the program could not be started and the caller had asked
\* for success.
C18_Witness ==
    /\ rpc = "done"
    /\ child.state = "none"
    /\ rcheck
    /\ routcome = "raised_launch"

C21_Orig_WorkingPathsAvoidBundle ==
    ppc \notin {"off", "new"} =>
        /\ paths.extraction_dir # paths.patched_apk
        /\ paths.extraction_dir # paths.zipaligned_apk
        /\ paths.patched_apk # paths.zipaligned_apk
        /\ bundle \notin {paths.extraction_dir, paths.patched_apk, paths.zipaligned_apk}
        /\ \A t \in touched : t.target # bundle

\* C22: two runs on one bundle, interleaved stage by stage, can corrupt each
\* other, and only in that way.  An object that reaches Repack without
\* having been interfered with repacks a tree with both edits; an archive
\* that lacks the edits exists only after another object's pre-clear, unpack
\* or cleanup removed or replaced what an object had prepared.  (The witness
\* is the interleaving the claim speaks of.)
C22_CorruptionOnlyByInterference ==
    /\ \A i \in Procs :
          (rp.obj[i].pc = "Repack" /\ ~rp.obj[i].hit) =>
              /\ extraction_dir.exists
              /\ extraction_dir.nsc = "literal"
              /\ extraction_dir.manifest.nscAttr = "ours"
    /\ ((patched_apk.exists /\ ~patched_apk.edited)
          \/ (zipaligned_apk.exists /\ ~zipaligned_apk.edited))
          => \E j \in Procs : rp.obj[j].hit

\* C22 witness: object 1 has returned True over a final archive that lacks
\* the edits, because object 2 cleared and re-unpacked the extraction
\* directory after object 1 had patched it; object 2 has not got to
\* repacking yet.
C22_Witness ==
    /\ rp.obj[1].result = "True"
    /\ rp.obj[1].hit
    /\ ~rp.obj[2].hit
    /\ rp.obj[2].pc \in {"InjectConfig", "EditManifest", "DetectVersion", "Repack"}
    /\ zipaligned_apk.exists
    /\ ~zipaligned_apk.edited

====
